---- MODULE Spec2Model ----
(***************************************************************************)
(* Model of script.py: the OpenStreetMap supplier search.                  *)
(*   main: fetch_osm_suppliers -> filter_and_process_data ->               *)
(*         display_results -> save_to_csv                                  *)
(*                                                                         *)
(* Python strings are sequences of one-character tokens; the letters       *)
(* outside ASCII are the tokens "a_breve", "A_BREVE" and "s_comma".        *)
(* A Python/JSON value is a tagged record: JStr, JNum, JDict or None.      *)
(* Coordinates are numbers in hundredths of a degree (44.43 is 4443).      *)
(***************************************************************************)
EXTENDS Integers, Sequences, FiniteSets, TLC

\* entry     what is run: "main", or a direct call of save_to_csv
\* pc        the position of the run
\* requests  number of requests.post calls so far
\* raw_data  what fetch_osm_suppliers returned
\* i         index of the element the loop takes next
\* seen_ids  the set seen_ids of filter_and_process_data
\* suppliers the list suppliers, then main's suppliers_list
\* console   what has been printed, one tag per message
\* file      the output file; opens counts open(filename, 'w')
\* error     the exception that aborted the run, or "none"
\* file0     the output file before the run
\* arg       the argument of the direct call of save_to_csv
VARIABLES entry, pc, requests, raw_data, i, seen_ids, suppliers,
          console, file, opens, error, file0, arg

vars == <<entry, pc, requests, raw_data, i, seen_ids, suppliers,
          console, file, opens, error, file0, arg>>

\* ---------------------------------------------------------------- bounds

\* element ids of the generated inputs are 1..MaxId
MaxId == 2
\* longest multi-element 'elements' list of a response
MaxElems == 2

\* ---------------------------------------------------------------- values

JStr(s) == [k |-> "str", s |-> s]
JNum(n) == [k |-> "num", n |-> n]
JDict(d) == [k |-> "dict", d |-> d]
None == [k |-> "null"]

EmptyDict == <<>>

\* dict.get(key, default)
Get(d, key, default) == IF key \in DOMAIN d THEN d[key] ELSE default

\* Python truthiness of a value ('not osm_data', 'if supplier[...]')
Truthy(v) ==
  CASE v.k = "null" -> FALSE
    [] v.k = "str" -> v.s # <<>>
    [] v.k = "num" -> v.n # 0
    [] v.k = "dict" -> DOMAIN v.d # {}

\* ---------------------------------------------------------------- strings

UpperChars == <<"A","B","C","D","E","F","G","H","I","J","K","L","M","N","O","P","Q","R","S","T","U","V","W","X","Y","Z","A_BREVE">>
LowerChars == <<"a","b","c","d","e","f","g","h","i","j","k","l","m","n","o","p","q","r","s","t","u","v","w","x","y","z","a_breve">>

LowerChar(c) ==
  IF \E j \in 1..Len(UpperChars) : UpperChars[j] = c
  THEN LowerChars[CHOOSE j \in 1..Len(UpperChars) : UpperChars[j] = c]
  ELSE c

\* str.lower()
Lower(s) == [j \in 1..Len(s) |-> LowerChar(s[j])]

\* 'needle in hay' for two strings
Contains(hay, needle) ==
  \E j \in 0..(Len(hay) - Len(needle)) : SubSeq(hay, j + 1, j + Len(needle)) = needle

\* str.strip()
Strip(s) ==
  LET ns == {j \in 1..Len(s) : s[j] # " "}
  IN IF ns = {} THEN <<>>
     ELSE SubSeq(s, CHOOSE j \in ns : \A m \in ns : j <= m,
                    CHOOSE j \in ns : \A m \in ns : j >= m)

DigitChars == <<"0","1","2","3","4","5","6","7","8","9">>

RECURSIVE IntToStr(_)
\* str(n) of a natural number
IntToStr(n) ==
  IF n < 10 THEN <<DigitChars[n + 1]>>
  ELSE IntToStr(n \div 10) \o <<DigitChars[(n % 10) + 1]>>

\* "{v}" inside an f-string
Format(v) ==
  CASE v.k = "str" -> v.s
    [] v.k = "num" -> IntToStr(v.n)
    [] v.k = "null" -> <<"N","o","n","e">>

S_node == <<"n","o","d","e">>
S_way == <<"w","a","y">>
S_relation == <<"r","e","l","a","t","i","o","n">>
S_wholesale == <<"w","h","o","l","e","s","a","l","e">>
S_trade == <<"t","r","a","d","e">>
S_industrial == <<"i","n","d","u","s","t","r","i","a","l">>
S_shoemaker == <<"s","h","o","e","m","a","k","e","r">>
S_NA == <<"N","/","A">>
S_Bucuresti == <<"B","u","c","u","r","e","s_comma","t","i">>

\* the list with the remote query's 'brutarie' in the place of 'brut'
shoe_material_keywords_FromQuery ==
  << <<"c","i","z","m","a_breve","r","i","e">>,
     <<"c","i","z","m","a","r">>,
     <<"p","a","n","t","o","f">>,
     <<"s","h","o","e">>,
     <<"f","o","o","t","w","e","a","r">>,
     <<"p","i","e","l","e">>,
     <<"l","e","a","t","h","e","r">>,
     <<"m","a","t","e","r","i","a","l">>,
     <<"s","k","i","n">>,
     <<"t","e","x","t","i","l">>,
     <<"d","e","p","o","z","i","t">>,
     <<"w","a","r","e","h","o","u","s","e">>,
     <<"w","h","o","l","e","s","a","l","e">>,
     <<"e","n","-","g","r","o","s">>,
     <<"a","n","g","r","o">>,
     <<"n","e","l","u","c","r","a","t","a_breve">>,
     <<"r","a","w">>,
     <<"b","r","u","t","a_breve","r","i","e">>,
     <<"p","r","o","v","i","z","i","e">>,
     <<"s","u","p","p","l","y">> >>

\* shoe_material_keywords, in the order of the source
shoe_material_keywords ==
  << <<"c","i","z","m","a_breve","r","i","e">>,
     <<"c","i","z","m","a","r">>,
     <<"p","a","n","t","o","f">>,
     <<"s","h","o","e">>,
     <<"f","o","o","t","w","e","a","r">>,
     <<"p","i","e","l","e">>,
     <<"l","e","a","t","h","e","r">>,
     <<"m","a","t","e","r","i","a","l">>,
     <<"s","k","i","n">>,
     <<"t","e","x","t","i","l">>,
     <<"d","e","p","o","z","i","t">>,
     <<"w","a","r","e","h","o","u","s","e">>,
     <<"w","h","o","l","e","s","a","l","e">>,
     <<"e","n","-","g","r","o","s">>,
     <<"a","n","g","r","o">>,
     <<"n","e","l","u","c","r","a","t","a_breve">>,
     <<"r","a","w">>,
     <<"b","r","u","t">>,
     <<"p","r","o","v","i","z","i","e">>,
     <<"s","u","p","p","l","y">> >>
N_Brutaria == <<"B","r","u","t","a_breve","r","i","a"," ","C","e","n","t","r","a","l","a_breve">>
N_Depozit == <<"D","e","p","o","z","i","t"," ","P","i","e","l","e"," ","S","R","L">>
N_CIZMARIE == <<"C","I","Z","M","A_BREVE","R","I","E">>
N_Cafe == <<"C","a","f","e"," ","S","h","o">>
V_Trade == <<"T","r","a","d","e">>
V_bakery == <<"b","a","k","e","r","y">>
V_SHOEMAKER == <<"S","h","o","e","m","a","k","e","r">>
V_tailor == <<"t","a","i","l","o","r">>
V_street == <<" ","S","t","r"," ","L","u","n","g","a">>
V_house == <<"1","2","A">>
V_city == <<"I","l","f","o","v">>
V_post == <<"0","1","0","1">>
V_phone == <<"0","2","1">>
V_web == <<"x",".","r","o">>
V_desc == <<"P","i","e","i">>

\* ---------------------------------------------------------------- filter_and_process_data

\* element_id = f"{element['type']}_{element['id']}"
element_id(element) == Format(element["type"]) \o <<"_">> \o Format(element["id"])

\* tags = element.get('tags', {})
TagsOf(element) == Get(element, "tags", JDict(EmptyDict))

\* tags.get(key, default) for a string default
TagGet(tags, key, default) == Get(tags.d, key, JStr(default))

\* the shop tag compared as it is, not lowercased
IsRelevant_CaseSensitiveShop(tags) ==
  LET name == Lower(TagGet(tags, "name", <<>>).s)
      shop_type == TagGet(tags, "shop", <<>>).s
      craft_type == Lower(TagGet(tags, "craft", <<>>).s)
      name_check == \E j \in 1..Len(shoe_material_keywords) :
                       Contains(name, shoe_material_keywords[j])
  IN \/ shop_type \in {S_wholesale, S_trade, S_industrial}
     \/ craft_type = S_shoemaker
     \/ name_check

\* 'shop_type in [...] / elif craft_type == ... / name_check' on the lowercased tags
IsRelevant(tags) ==
  LET name == Lower(TagGet(tags, "name", <<>>).s)
      shop_type == Lower(TagGet(tags, "shop", <<>>).s)
      craft_type == Lower(TagGet(tags, "craft", <<>>).s)
      name_check == \E j \in 1..Len(shoe_material_keywords) :
                       Contains(name, shoe_material_keywords[j])
  IN \/ shop_type \in {S_wholesale, S_trade, S_industrial}
     \/ craft_type = S_shoemaker
     \/ name_check

\* any element without a center reports its own position, not only a node
Coordinates_OwnWithoutCenter(element) ==
  IF element["type"] = JStr(S_node) \/ "center" \notin DOMAIN element
  THEN <<Get(element, "lat", None), Get(element, "lon", None)>>
  ELSE IF element["type"] = JStr(S_way) /\ "center" \in DOMAIN element
       THEN <<Get(element["center"].d, "lat", None), Get(element["center"].d, "lon", None)>>
       ELSE <<None, None>>

\* lat, lon of a relevant element
Coordinates(element) ==
  IF element["type"] = JStr(S_node)
  THEN <<Get(element, "lat", None), Get(element, "lon", None)>>
  ELSE IF element["type"] = JStr(S_way) /\ "center" \in DOMAIN element
       THEN <<Get(element["center"].d, "lat", None), Get(element["center"].d, "lon", None)>>
       ELSE <<None, None>>

Address_NoStrip(tags) ==
  JStr(Format(TagGet(tags, "addr:street", <<>>)) \o <<" ">>
         \o Format(TagGet(tags, "addr:housenumber", <<>>)))

\* f"{tags.get('addr:street', '')} {tags.get('addr:housenumber', '')}".strip()
Address(tags) ==
  JStr(Strip(Format(TagGet(tags, "addr:street", <<>>)) \o <<" ">>
               \o Format(TagGet(tags, "addr:housenumber", <<>>))))

\* the supplier dict of a relevant element
Supplier(element) ==
  LET tags == TagsOf(element)
      c == Coordinates(element)
  IN [id |-> element["id"],
      type |-> element["type"],
      name |-> TagGet(tags, "name", S_NA),
      address |-> Address(tags),
      city |-> TagGet(tags, "addr:city", S_Bucuresti),
      postcode |-> TagGet(tags, "addr:postcode", <<>>),
      shop |-> TagGet(tags, "shop", <<>>),
      craft |-> TagGet(tags, "craft", <<>>),
      description |-> TagGet(tags, "description", <<>>),
      phone |-> TagGet(tags, "phone", <<>>),
      website |-> TagGet(tags, "website", <<>>),
      latitude |-> c[1],
      longitude |-> c[2]]

\* the exception one iteration of the loop raises on this element, or "none"
LoopError(element, seen) ==
  IF "type" \notin DOMAIN element \/ "id" \notin DOMAIN element THEN "KeyError"
  ELSE IF element_id(element) \in seen THEN "none"
  ELSE IF TagsOf(element).k # "dict" THEN "AttributeError"
  ELSE IF \E key \in {"name", "shop", "craft"} :
             TagGet(TagsOf(element), key, <<>>).k # "str" THEN "AttributeError"
  ELSE IF /\ IsRelevant(TagsOf(element))
          /\ element["type"] = JStr(S_way)
          /\ "center" \in DOMAIN element
          /\ element["center"].k # "dict" THEN "AttributeError"
  ELSE "none"

\* ---------------------------------------------------------------- save_to_csv, display_results

fieldnames == <<"id", "type", "name", "address", "city", "postcode",
                "shop", "craft", "description", "phone", "website",
                "latitude", "longitude">>

\* csv.DictWriter writes None as the empty string
CsvCell(v) == IF v = None THEN JStr(<<>>) ELSE v

CsvRow(supplier) == [j \in 1..Len(fieldnames) |-> CsvCell(supplier[fieldnames[j]])]

\* the file is opened for writing before the emptiness test
save_to_csv_OpenFirst(s, st) ==
  IF s = <<>>
  THEN [file |-> [exists |-> TRUE, header |-> <<>>, rows |-> <<>>],
        opens |-> st.opens + 1,
        console |-> Append(st.console, "no_data_to_save")]
  ELSE [file |-> [exists |-> TRUE, header |-> fieldnames,
                  rows |-> [j \in 1..Len(s) |-> CsvRow(s[j])]],
        opens |-> st.opens + 1,
        console |-> Append(st.console, "saved")]

\* save_to_csv(s) from the sink state st = [file, opens, console]
save_to_csv(s, st) ==
  IF s = <<>>
  THEN [st EXCEPT !.console = Append(@, "no_data_to_save")]
  ELSE [file |-> [exists |-> TRUE, header |-> fieldnames,
                  rows |-> [j \in 1..Len(s) |-> CsvRow(s[j])]],
        opens |-> st.opens + 1,
        console |-> Append(st.console, "saved")]

\* display_results(s): the lines it prints
display_results(s) ==
  IF s = <<>> THEN <<"no_results">>
  ELSE <<"found">> \o [j \in 1..Len(s) |-> "block"]

\* ---------------------------------------------------------------- responses of the remote endpoint

Types == {S_node, S_way, S_relation}
Ids == 1..MaxId

NameTags ==
  {EmptyDict} \cup {"name" :> JStr(n) : n \in {N_Brutaria, N_Depozit, N_CIZMARIE, N_Cafe}}
              \cup {"name" :> JNum(5)}
ShopTags ==
  {EmptyDict} \cup {"shop" :> JStr(s) : s \in {S_wholesale, V_Trade, V_bakery}}
CraftTags ==
  {EmptyDict} \cup {"craft" :> JStr(s) : s \in {S_shoemaker, V_SHOEMAKER, V_tailor}}
ExtraTags ==
  { EmptyDict,
    "addr:street" :> JStr(V_street),
    "addr:housenumber" :> JStr(V_house),
    ("addr:street" :> JStr(V_street)) @@ ("addr:housenumber" :> JStr(V_house))
      @@ ("addr:city" :> JStr(V_city)) @@ ("addr:postcode" :> JStr(V_post))
      @@ ("description" :> JStr(V_desc)) @@ ("phone" :> JStr(V_phone))
      @@ ("website" :> JStr(V_web)) }

TagDicts == {n @@ s @@ c @@ x : n \in NameTags, s \in ShopTags, c \in CraftTags, x \in ExtraTags}

Own == ("lat" :> JNum(4443)) @@ ("lon" :> JNum(2610))
Center == "center" :> JDict(("lat" :> JNum(4400)) @@ ("lon" :> JNum(2600)))
Geometries ==
  { EmptyDict, Own, "lat" :> JNum(4443), Center, Own @@ Center,
    "center" :> JDict(EmptyDict), "center" :> None }

Elem(type, id, tags, geo) ==
  ("type" :> JStr(type)) @@ ("id" :> JNum(id)) @@ ("tags" :> JDict(tags)) @@ geo

\* every combination of type, id, tags and geometry, each as a one-element response
FullElements == {Elem(t, n, tg, g) : t \in Types, n \in Ids, tg \in TagDicts, g \in Geometries}

\* the two elements of the documented end-to-end examples
Elem42 == Elem(S_node, 42, ("name" :> JStr(N_Depozit)) @@ ("shop" :> JStr(S_wholesale)), Own)
Elem7 == Elem(S_way, 7, "name" :> JStr(N_Brutaria), Center)

\* elements without 'tags', with a null 'tags', without 'type', without 'id'
OddElements ==
  { ("type" :> JStr(S_node)) @@ ("id" :> JNum(1)) @@ Own,
    ("type" :> JStr(S_way)) @@ ("id" :> JNum(1)) @@ ("tags" :> None),
    ("id" :> JNum(1)) @@ ("tags" :> JDict("shop" :> JStr(S_trade))),
    ("type" :> JStr(S_node)) @@ ("tags" :> JDict("shop" :> JStr(S_trade))) }

\* the elements of the longer responses
CoreTags ==
  { ("name" :> JStr(N_Depozit)) @@ ("shop" :> JStr(S_wholesale)),
    "craft" :> JStr(V_SHOEMAKER),
    "name" :> JStr(N_Cafe) }
CoreElements ==
  {Elem(t, n, tg, Own @@ Center) : t \in {S_node, S_way}, n \in Ids, tg \in CoreTags}
    \cup {("id" :> JNum(1)) @@ ("tags" :> JDict("shop" :> JStr(S_trade)))}

ElementLists ==
  {<<>>} \cup {<<e>> : e \in FullElements \cup OddElements \cup {Elem42, Elem7}}
         \cup UNION {[1..n -> CoreElements] : n \in 2..MaxElems}

\* what response.json() can return
Payloads ==
  {JNum(0), JNum(5), JDict(EmptyDict), JDict("version" :> JNum(6))}
    \cup {JDict("elements" :> es) : es \in ElementLists}

\* how the request can fail: connection error, raise_for_status, response.json()
FetchFailures == {"ConnectionError", "HTTPError", "JSONDecodeError"}

\* the output file before the run: absent, or left by an earlier run
OldFile == [exists |-> TRUE, header |-> <<"old">>, rows |-> <<>>]
NoFile == [exists |-> FALSE, header |-> <<>>, rows |-> <<>>]

\* arguments of a direct call of save_to_csv
SaveArgs ==
  {<<>>, <<Supplier(Elem42)>>, <<Supplier(Elem7)>>,
   <<Supplier(Elem42), Supplier(Elem7)>>, <<Supplier(Elem7), Supplier(Elem42)>>}

\* the list the loop iterates
Elements == raw_data.d["elements"]

\* ---------------------------------------------------------------- the program

Init ==
  /\ entry \in {"main", "save_to_csv"}
  /\ pc = IF entry = "main" THEN "start" ELSE "call_save"
  /\ arg \in IF entry = "main" THEN {<<>>} ELSE SaveArgs
  /\ file0 \in {NoFile, OldFile}
  /\ file = file0
  /\ requests = 0
  /\ raw_data = None
  /\ i = 1
  /\ seen_ids = {}
  /\ suppliers = <<>>
  /\ console = <<>>
  /\ opens = 0
  /\ error = "none"

\* fetch_osm_suppliers: print, then requests.post blocks until the endpoint answers
FetchSend ==
  /\ pc = "start"
  /\ pc' = "waiting"
  /\ requests' = requests + 1
  /\ console' = Append(console, "querying")
  /\ UNCHANGED <<entry, raw_data, i, seen_ids, suppliers, file, opens, error, file0, arg>>

\* the endpoint answers 200 with a JSON body: return response.json()
RespondOk ==
  /\ pc = "waiting"
  /\ \E p \in Payloads : raw_data' = p
  /\ pc' = "filter"
  /\ UNCHANGED <<entry, requests, i, seen_ids, suppliers, console, file, opens, error, file0, arg>>

\* the request fails: except Exception -> print, return None
RespondFail ==
  /\ pc = "waiting"
  /\ \E f \in FetchFailures : console' = console \o <<"error_fetching", f>>
  /\ raw_data' = None
  /\ pc' = "filter"
  /\ UNCHANGED <<entry, requests, i, seen_ids, suppliers, file, opens, error, file0, arg>>

\* the guard without 'not osm_data': 'elements' not in None raises TypeError
FilterEnter_NoNoneCheck ==
  /\ pc = "filter"
  /\ IF raw_data.k # "dict"
     THEN pc' = "raised" /\ error' = "TypeError"
     ELSE IF "elements" \notin DOMAIN raw_data.d
          THEN pc' = "display" /\ error' = error
          ELSE pc' = "loop" /\ error' = error
  /\ i' = 1 /\ seen_ids' = {} /\ suppliers' = <<>>
  /\ UNCHANGED <<entry, requests, raw_data, console, file, opens, file0, arg>>

\* filter_and_process_data up to the loop: 'elements' not in a number raises TypeError
FilterEnter ==
  /\ pc = "filter"
  /\ IF ~Truthy(raw_data)
     THEN pc' = "display" /\ error' = error
     ELSE IF raw_data.k # "dict"
          THEN pc' = "raised" /\ error' = "TypeError"
          ELSE IF "elements" \notin DOMAIN raw_data.d
               THEN pc' = "display" /\ error' = error
               ELSE pc' = "loop" /\ error' = error
  /\ i' = 1 /\ seen_ids' = {} /\ suppliers' = <<>>
  /\ UNCHANGED <<entry, requests, raw_data, console, file, opens, file0, arg>>

\* one iteration on an element whose element_id was seen: continue
LoopSkip ==
  /\ pc = "loop" /\ i <= Len(Elements)
  /\ LoopError(Elements[i], seen_ids) = "none"
  /\ element_id(Elements[i]) \in seen_ids
  /\ i' = i + 1
  /\ UNCHANGED <<entry, pc, requests, raw_data, seen_ids, suppliers, console, file, opens,
                 error, file0, arg>>

\* one iteration on a new element that is not relevant
LoopDiscard ==
  /\ pc = "loop" /\ i <= Len(Elements)
  /\ LoopError(Elements[i], seen_ids) = "none"
  /\ element_id(Elements[i]) \notin seen_ids
  /\ ~IsRelevant(TagsOf(Elements[i]))
  /\ seen_ids' = seen_ids \cup {element_id(Elements[i])}
  /\ i' = i + 1
  /\ UNCHANGED <<entry, pc, requests, raw_data, suppliers, console, file, opens, error,
                 file0, arg>>

\* a relevant element is appended whether or not its element_id was seen
LoopAppend_Reclassify ==
  /\ pc = "loop" /\ i <= Len(Elements)
  /\ LoopError(Elements[i], {}) = "none"
  /\ IsRelevant(TagsOf(Elements[i]))
  /\ seen_ids' = seen_ids \cup {element_id(Elements[i])}
  /\ suppliers' = Append(suppliers, Supplier(Elements[i]))
  /\ i' = i + 1
  /\ UNCHANGED <<entry, pc, requests, raw_data, console, file, opens, error, file0, arg>>

\* the supplier of a new relevant element is put in front of the list
LoopAppend_Prepend ==
  /\ pc = "loop" /\ i <= Len(Elements)
  /\ LoopError(Elements[i], seen_ids) = "none"
  /\ element_id(Elements[i]) \notin seen_ids
  /\ IsRelevant(TagsOf(Elements[i]))
  /\ seen_ids' = seen_ids \cup {element_id(Elements[i])}
  /\ suppliers' = <<Supplier(Elements[i])>> \o suppliers
  /\ i' = i + 1
  /\ UNCHANGED <<entry, pc, requests, raw_data, console, file, opens, error, file0, arg>>

\* one iteration on a new element that is relevant: append its supplier
LoopAppend ==
  /\ pc = "loop" /\ i <= Len(Elements)
  /\ LoopError(Elements[i], seen_ids) = "none"
  /\ element_id(Elements[i]) \notin seen_ids
  /\ IsRelevant(TagsOf(Elements[i]))
  /\ seen_ids' = seen_ids \cup {element_id(Elements[i])}
  /\ suppliers' = Append(suppliers, Supplier(Elements[i]))
  /\ i' = i + 1
  /\ UNCHANGED <<entry, pc, requests, raw_data, console, file, opens, error, file0, arg>>

\* one iteration that raises: nothing in main catches it, the run aborts
LoopRaise ==
  /\ pc = "loop" /\ i <= Len(Elements)
  /\ LoopError(Elements[i], seen_ids) # "none"
  /\ error' = LoopError(Elements[i], seen_ids)
  /\ seen_ids' = IF error' = "KeyError" THEN seen_ids
                 ELSE seen_ids \cup {element_id(Elements[i])}
  /\ pc' = "raised"
  /\ UNCHANGED <<entry, requests, raw_data, i, suppliers, console, file, opens, file0, arg>>

\* the loop is exhausted: return suppliers
LoopExit ==
  /\ pc = "loop" /\ i > Len(Elements)
  /\ pc' = "display"
  /\ UNCHANGED <<entry, requests, raw_data, i, seen_ids, suppliers, console, file, opens,
                 error, file0, arg>>

\* main: display_results(suppliers_list)
Display ==
  /\ pc = "display"
  /\ console' = console \o display_results(suppliers)
  /\ pc' = "save"
  /\ UNCHANGED <<entry, requests, raw_data, i, seen_ids, suppliers, file, opens, error,
                 file0, arg>>

\* main: if suppliers_list: save_to_csv(suppliers_list); print tips
MainSave ==
  /\ pc = "save"
  /\ LET st == save_to_csv(suppliers, [file |-> file, opens |-> opens, console |-> console])
     IN IF suppliers # <<>>
        THEN file' = st.file /\ opens' = st.opens /\ console' = Append(st.console, "tips")
        ELSE UNCHANGED <<file, opens, console>>
  /\ pc' = "done"
  /\ UNCHANGED <<entry, requests, raw_data, i, seen_ids, suppliers, error, file0, arg>>

\* a caller other than main: save_to_csv(arg)
CallSaveToCsv ==
  /\ pc = "call_save"
  /\ LET st == save_to_csv(arg, [file |-> file, opens |-> opens, console |-> console])
     IN file' = st.file /\ opens' = st.opens /\ console' = st.console
  /\ pc' = "returned"
  /\ UNCHANGED <<entry, requests, raw_data, i, seen_ids, suppliers, error, file0, arg>>

Respond == RespondOk \/ RespondFail

ProgramStep ==
  \/ FetchSend \/ FilterEnter
  \/ LoopSkip \/ LoopDiscard \/ LoopAppend \/ LoopRaise \/ LoopExit
  \/ Display \/ MainSave \/ CallSaveToCsv

Next == ProgramStep \/ Respond

Spec == Init /\ [][Next]_vars

\* the program's own steps always run; nothing obliges the endpoint to answer,
\* and requests.post is called without a timeout
FairSpec == Init /\ [][Next]_vars /\ WF_vars(ProgramStep)

\* ---------------------------------------------------------------- vocabulary of the properties

\* the response carries an 'elements' list
HasElements == raw_data.k = "dict" /\ "elements" \in DOMAIN raw_data.d

\* the classification loop has been entered on that list
Looping == entry = "main" /\ pc \in {"loop", "display", "save", "done", "raised"} /\ HasElements

\* the (type, id) pair of an element or of a record
PairOf(x) == <<x["type"], x["id"]>>

\* indices the loop has gone through
Processed == 1..(i - 1)

\* Elements[j] is the first element of the list with its (type, id) pair
FirstOcc(j) == \A m \in 1..(j - 1) : PairOf(Elements[m]) # PairOf(Elements[j])

\* the records of the output that carry the pair of Elements[j]
RecordsOf(j) == {n \in 1..Len(suppliers) : PairOf(suppliers[n]) = PairOf(Elements[j])}

\* a tag lowercased, the empty string when the element has no such tag
LowTag(element, key) ==
  IF "tags" \in DOMAIN element /\ key \in DOMAIN element["tags"].d
  THEN Lower(element["tags"].d[key].s) ELSE <<>>

\* a tag as it is in the element, or the default
RawTag(element, key, default) ==
  IF "tags" \in DOMAIN element /\ key \in DOMAIN element["tags"].d
  THEN element["tags"].d[key] ELSE JStr(default)

\* ---------------------------------------------------------------- C1

KW_cizmarie == <<"c","i","z","m","a_breve","r","i","e">>
KW_nelucrata == <<"n","e","l","u","c","r","a","t","a_breve">>
KW_brut == <<"b","r","u","t">>

\* the twenty keywords as the specification lists them
ListedKeywords ==
  { KW_cizmarie, <<"c","i","z","m","a","r">>, <<"p","a","n","t","o","f">>,
    <<"s","h","o","e">>, <<"f","o","o","t","w","e","a","r">>, <<"p","i","e","l","e">>,
    <<"l","e","a","t","h","e","r">>, <<"m","a","t","e","r","i","a","l">>,
    <<"s","k","i","n">>, <<"t","e","x","t","i","l">>, <<"d","e","p","o","z","i","t">>,
    <<"w","a","r","e","h","o","u","s","e">>, <<"w","h","o","l","e","s","a","l","e">>,
    <<"e","n","-","g","r","o","s">>, <<"a","n","g","r","o">>, KW_nelucrata,
    <<"r","a","w">>, KW_brut, <<"p","r","o","v","i","z","i","e">>,
    <<"s","u","p","p","l","y">> }

\* s occurs in t at some offset
Occurs(s, t) ==
  \E off \in 0..(Len(t) - Len(s)) : \A n \in 1..Len(s) : t[off + n] = s[n]

ListedRelevant(element) ==
  \/ LowTag(element, "shop") \in {S_wholesale, S_trade, S_industrial}
  \/ LowTag(element, "craft") = S_shoemaker
  \/ \E kw \in ListedKeywords : Occurs(kw, LowTag(element, "name"))

\* C1: every processed first occurrence of a (type, id) pair has a record in the
\* output if and only if its lowercased shop is wholesale, trade or industrial, or
\* its lowercased craft is shoemaker, or its lowercased name contains one of the
\* twenty listed keywords; missing tags count as the empty string.
C1_RelevantIffRecord ==
  Looping =>
    \A j \in Processed :
      FirstOcc(j) => ((RecordsOf(j) # {}) <=> ListedRelevant(Elements[j]))

\* a shop tag in another casing, without craft and without name, yielded a record
C1_Witness ==
  /\ Looping /\ pc = "done" /\ Len(Elements) = 1
  /\ LowTag(Elements[1], "shop") = S_trade
  /\ Elements[1]["tags"].d["shop"] # JStr(S_trade)
  /\ DOMAIN Elements[1]["tags"].d = {"shop"}
  /\ Len(suppliers) = 1

\* ---------------------------------------------------------------- C2

\* C2: the output holds at most one record per (type, id) pair and that record is
\* the one built from the first element of the list with the pair; later elements
\* with the pair leave no record, whatever their tags and whether or not the first
\* one was relevant.
C2_FirstOccurrenceWins ==
  Looping =>
    /\ \A a, b \in 1..Len(suppliers) :
         PairOf(suppliers[a]) = PairOf(suppliers[b]) => a = b
    /\ \A n \in 1..Len(suppliers) :
         \E j \in Processed :
           /\ FirstOcc(j)
           /\ PairOf(Elements[j]) = PairOf(suppliers[n])
           /\ suppliers[n] = Supplier(Elements[j])
    /\ \A j \in Processed : ~FirstOcc(j) =>
         \A n \in RecordsOf(j) : \E m \in 1..(j - 1) :
           PairOf(Elements[m]) = PairOf(Elements[j]) /\ FirstOcc(m)
             /\ suppliers[n] = Supplier(Elements[m])

\* an irrelevant first occurrence followed by a relevant element with the same pair:
\* the run ends without any record
C2_Witness ==
  /\ Looping /\ pc = "done" /\ Len(Elements) = 2
  /\ PairOf(Elements[1]) = PairOf(Elements[2])
  /\ ~ListedRelevant(Elements[1]) /\ ListedRelevant(Elements[2])
  /\ suppliers = <<>>

\* ---------------------------------------------------------------- C3

\* the element a record was built from
SourceOf(record) ==
  Elements[CHOOSE j \in Processed : FirstOcc(j) /\ PairOf(Elements[j]) = PairOf(record)]

\* a key of a mapping, null when the mapping has no such key
OrNull(d, key) == IF key \in DOMAIN d THEN d[key] ELSE None

\* C3: a record of a node carries the element's own lat/lon, each null when absent,
\* whether or not a center is present; a record of a way with a center carries the
\* center's lat/lon and ignores the element's own; every other record has both null.
C3_Coordinates ==
  Looping =>
    \A n \in 1..Len(suppliers) :
      LET e == SourceOf(suppliers[n])
          r == suppliers[n]
      IN IF e["type"] = JStr(S_node)
         THEN r.latitude = OrNull(e, "lat") /\ r.longitude = OrNull(e, "lon")
         ELSE IF e["type"] = JStr(S_way) /\ "center" \in DOMAIN e
              THEN /\ r.latitude = OrNull(e["center"].d, "lat")
                   /\ r.longitude = OrNull(e["center"].d, "lon")
              ELSE r.latitude = None /\ r.longitude = None

\* a node with a center and no position of its own got null coordinates
C3_Witness ==
  /\ Looping /\ pc = "done" /\ Len(suppliers) = 1
  /\ suppliers[1].type = JStr(S_node)
  /\ "center" \in DOMAIN Elements[1] /\ "lat" \notin DOMAIN Elements[1]
  /\ Elements[1]["center"].k = "dict" /\ "lat" \in DOMAIN Elements[1]["center"].d
  /\ suppliers[1].latitude = None /\ suppliers[1].longitude = None

\* ---------------------------------------------------------------- C4

FetchFailed == \E n \in 1..Len(console) : console[n] = "error_fetching"

Shown(line) == \E n \in 1..Len(console) : console[n] = line

\* C4: after a failed fetch the run goes on as with an empty result set: the fetcher
\* returned the failure value, no record is produced, nothing raises, the file is
\* left as it was, the 'no results' notice is displayed once display_results has
\* run, one request was made, and the run can always step until main has ended.
C4_FetchFailureIsEmptyRun ==
  (entry = "main" /\ FetchFailed) =>
    /\ raw_data = None
    /\ requests = 1
    /\ pc \in {"filter", "display", "save", "done"}
    /\ error = "none"
    /\ suppliers = <<>>
    /\ file = file0 /\ opens = 0
    /\ (pc \in {"save", "done"} => Shown("no_results"))
    /\ ~Shown("saved") /\ ~Shown("no_data_to_save")
    /\ (pc = "done" \/ ENABLED Next)

\* a run whose fetch failed ended normally and created no file
C4_Witness ==
  /\ entry = "main" /\ FetchFailed /\ pc = "done"
  /\ Shown("JSONDecodeError")
  /\ file0 = NoFile /\ ~file.exists
  /\ Shown("no_results")

\* ---------------------------------------------------------------- C5

\* C5: save_to_csv on an empty sequence leaves the file as it was and prints the
\* 'nothing to save' notice; on a non-empty one it writes the header and one row per
\* record in sequence order.  In a run of main the file is written at most once, and
\* only when the classifier produced a record.
C5_SaveOnlyNonEmpty ==
  /\ (entry = "save_to_csv" /\ pc = "returned") =>
       IF arg = <<>>
       THEN file = file0 /\ opens = 0 /\ console = <<"no_data_to_save">>
       ELSE /\ opens = 1 /\ file.exists /\ file.header = fieldnames
            /\ Len(file.rows) = Len(arg)
            /\ \A n \in 1..Len(arg) : \A c \in 1..Len(fieldnames) :
                 file.rows[n][c] = IF arg[n][fieldnames[c]] = None THEN JStr(<<>>)
                                   ELSE arg[n][fieldnames[c]]
            /\ ~Shown("no_data_to_save")
  /\ entry = "main" =>
       /\ opens <= 1
       /\ (opens = 1 => suppliers # <<>> /\ pc = "done")
       /\ (opens = 0 => file = file0)
       /\ (pc = "done" /\ suppliers # <<>> =>
             /\ file.header = fieldnames
             /\ Len(file.rows) = Len(suppliers)
             /\ \A n \in 1..Len(suppliers) : file.rows[n][3] = suppliers[n].name)

\* save_to_csv returned from an empty sequence and the earlier file is still there
C5_Witness ==
  /\ entry = "save_to_csv" /\ pc = "returned" /\ arg = <<>>
  /\ file0 = OldFile /\ file = OldFile
  /\ Shown("no_data_to_save")

\* ---------------------------------------------------------------- C6

\* C6: the classifier has no error outcome: whatever the payload, no exception
\* aborts the run.
C6_NoErrorOutcome == pc # "raised" /\ error = "none"

\* ---------------------------------------------------------------- C7

\* C7: exactly one request is made and the blocking call always returns, so every
\* run of main reaches the classifier, also when the endpoint never answers.
C7_FetchAlwaysReturns ==
  /\ [](requests <= 1)
  /\ [](entry = "main" => <>(pc \notin {"start", "waiting"}))

\* ---------------------------------------------------------------- C8

\* C8: the way 7 named "Brutaria Centrala" (a-breve written a) with center (44.0, 26.0) yields one record
\* with latitude 44.0 and longitude 26.0, and every processed first occurrence whose
\* lowercased name contains 'brut' has a record.
C8_BrutInsideLongerWord ==
  /\ (Looping /\ pc \in {"display", "save", "done"} /\ Elements = <<Elem7>>) =>
       /\ Len(suppliers) = 1
       /\ suppliers[1].id = JNum(7) /\ suppliers[1].type = JStr(S_way)
       /\ suppliers[1].latitude = JNum(4400) /\ suppliers[1].longitude = JNum(2600)
  /\ Looping =>
       \A j \in Processed :
         (FirstOcc(j) /\ Occurs(KW_brut, LowTag(Elements[j], "name"))) => RecordsOf(j) # {}
  /\ \A n \in 1..Len(shoe_material_keywords) :
       ~Occurs(shoe_material_keywords[n], <<"b","r","u","t","a_breve","r","i","e">>)
         \/ shoe_material_keywords[n] = KW_brut

\* the run on that element ended with its record
C8_Witness ==
  /\ Looping /\ pc = "done" /\ Elements = <<Elem7>>
  /\ "shop" \notin DOMAIN Elem7["tags"].d /\ "craft" \notin DOMAIN Elem7["tags"].d
  /\ Len(suppliers) = 1 /\ suppliers[1].latitude = JNum(4400)

\* ---------------------------------------------------------------- C9

RECURSIVE DropLeading(_)
DropLeading(s) == IF s # <<>> /\ Head(s) = " " THEN DropLeading(Tail(s)) ELSE s

RECURSIVE DropTrailing(_)
DropTrailing(s) ==
  IF s # <<>> /\ s[Len(s)] = " " THEN DropTrailing(SubSeq(s, 1, Len(s) - 1)) ELSE s

Trimmed(s) == DropTrailing(DropLeading(s))

\* C9: every record is the fixed projection of its element: id and type copied, name
\* in its original casing or "N/A", address the street and the house number joined
\* by a space and trimmed, city or "Bucuresti" (s-comma written s), the other tags as
\* they are or the empty string; the node 42 example yields the documented record.
C9_Projection ==
  /\ Looping =>
       \A n \in 1..Len(suppliers) :
         LET e == SourceOf(suppliers[n])
             r == suppliers[n]
             street == RawTag(e, "addr:street", <<>>).s
             house == RawTag(e, "addr:housenumber", <<>>).s
         IN /\ r.id = e["id"] /\ r.type = e["type"]
            /\ r.name = RawTag(e, "name", <<"N","/","A">>)
            /\ r.address = JStr(Trimmed(street \o <<" ">> \o house))
            /\ (street = <<>> /\ house = <<>> => r.address = JStr(<<>>))
            /\ (r.address.s # <<>> => Head(r.address.s) # " " /\ r.address.s[Len(r.address.s)] # " ")
            /\ r.city = RawTag(e, "addr:city", <<"B","u","c","u","r","e","s_comma","t","i">>)
            /\ r.postcode = RawTag(e, "addr:postcode", <<>>)
            /\ r.shop = RawTag(e, "shop", <<>>)
            /\ r.craft = RawTag(e, "craft", <<>>)
            /\ r.description = RawTag(e, "description", <<>>)
            /\ r.phone = RawTag(e, "phone", <<>>)
            /\ r.website = RawTag(e, "website", <<>>)
  /\ (Looping /\ pc \in {"display", "save", "done"} /\ Elements = <<Elem42>>) =>
       /\ Len(suppliers) = 1
       /\ suppliers[1].id = JNum(42) /\ suppliers[1].type = JStr(<<"n","o","d","e">>)
       /\ suppliers[1].name = JStr(N_Depozit)
       /\ suppliers[1].shop = JStr(<<"w","h","o","l","e","s","a","l","e">>)
       /\ suppliers[1].latitude = JNum(4443) /\ suppliers[1].longitude = JNum(2610)
       /\ suppliers[1].address = JStr(<<>>)
       /\ suppliers[1].city = JStr(<<"B","u","c","u","r","e","s_comma","t","i">>)

\* a record whose element has a street with a leading space and no house number, and
\* a name that its lowercasing changes
C9_Witness ==
  /\ Looping /\ pc = "done" /\ Len(suppliers) = 1
  /\ "addr:street" \in DOMAIN Elements[1]["tags"].d
  /\ Head(Elements[1]["tags"].d["addr:street"].s) = " "
  /\ "addr:housenumber" \notin DOMAIN Elements[1]["tags"].d
  /\ "name" \in DOMAIN Elements[1]["tags"].d
  /\ Lower(suppliers[1].name.s) # suppliers[1].name.s
  /\ suppliers[1].address = JStr(<<"S","t","r"," ","L","u","n","g","a">>)

\* ---------------------------------------------------------------- C10

\* suppliers is, in order, records of first occurrences among the processed elements
IsOrderedSubsequence ==
  \E f \in [1..Len(suppliers) -> Processed] :
    /\ \A a, b \in 1..Len(suppliers) : a < b => f[a] < f[b]
    /\ \A n \in 1..Len(suppliers) :
         FirstOcc(f[n]) /\ PairOf(Elements[f[n]]) = PairOf(suppliers[n])

C10_Inv ==
  Looping =>
    /\ IsOrderedSubsequence
    /\ Len(suppliers) <= Cardinality({PairOf(Elements[j]) : j \in Processed})
    /\ Len(suppliers) <= Cardinality(seen_ids)
    /\ \A n \in 1..Len(suppliers) :
         Format(suppliers[n].type) \o <<"_">> \o Format(suppliers[n].id) \in seen_ids

C10_Step ==
  pc \in {"loop", "display", "save"} =>
    /\ Len(suppliers') >= Len(suppliers)
    /\ SubSeq(suppliers', 1, Len(suppliers)) = suppliers

\* C10: at every iteration and at return the output is an order-preserving
\* subsequence of the first occurrences in the input, no longer than the number of
\* distinct pairs seen, every record's pair is in the seen set, and a step never
\* changes or removes a record that is already in the output.
C10_OrderedStableOutput == [](C10_Inv) /\ [][C10_Step]_vars

\* the list has two relevant elements of different pairs and both are in the output,
\* in the order of the list
C10_Witness ==
  /\ Looping /\ pc = "done" /\ Len(Elements) = 2 /\ Len(suppliers) = 2
  /\ PairOf(suppliers[1]) = PairOf(Elements[1])
  /\ PairOf(suppliers[2]) = PairOf(Elements[2])
  /\ PairOf(Elements[1]) # PairOf(Elements[2])

====
